---- MODULE Spec2Model ----
(***************************************************************************)
(* cmark-translate: CommonMark <=> XML transcoding and shortcode escaping. *)
(*                                                                         *)
(* Text is modelled as a sequence of one-character strings, so that the    *)
(* scanning code (str::split_once, format!) is computed character by       *)
(* character.  Tag and attribute names are only ever compared, and are     *)
(* modelled as plain strings.                                              *)
(***************************************************************************)
EXTENDS Integers, Sequences, FiniteSets, TLC

VARIABLES
    pc,          \* position in the pipeline
    cmark_text,  \* xmldom_from_cmark: the CommonMark text handed in
    escaped,     \* result of escape_all_shortcodes
    restored,    \* result of unescape_all_shortcodes
    ast_root,    \* comrak AST handed to xml_from_ast
    xml_root,    \* minidom element (projected, or received from the translator)
    ast_back,    \* comrak AST returned by ast_from_xml
    buf,         \* read_cmark_with_frontmatter: the text read from the file
    read_result, \* result of read_cmark_with_frontmatter
    job,         \* arguments and configuration of a call to the DeepL client
    request,     \* form parameters of the request sent to DeepL
    reply,       \* DeepL's answer: HTTP status and translations
    translated,  \* result of Deepl::translate
    calls,       \* the invocations of the transform that are in progress
    fs,          \* translate_cmark_file: the source and destination files
    translated_frontmatter,  \* result of translate_toml, when it was called
    translated_cmark,        \* result of translate_cmark
    outcome      \* what translate_cmark_file returned

vars == <<pc, cmark_text, escaped, restored, ast_root, xml_root, ast_back,
          buf, read_result, job, request, reply, translated, calls,
          fs, translated_frontmatter, translated_cmark, outcome>>

\* the variables of the escaper and tree pipelines
pipeVars == <<cmark_text, escaped, restored, ast_root, xml_root, ast_back>>

\* the variables of the front matter reader
readVars == <<buf, read_result>>

\* the variables of translate_cmark_file
fileVars == <<fs, translated_frontmatter, translated_cmark, outcome>>

\* the variables of the DeepL client
deeplVars == <<job, request, reply, translated>>

(***************************************************************************)
(* Bounds of the model.                                                    *)
(***************************************************************************)
\* longest input text, counted in tokens of Tokens
MaxTokens == 4
\* most columns of a table
MaxCols == 6
\* largest list start number
MaxNum == 12
\* most nodes below the root of a generated tree
MaxNodes == 3

(***************************************************************************)
(* Text helpers.                                                           *)
(***************************************************************************)
\* str::find: 1-based index of the first occurrence of pat in s, 0 if none
find(s, pat) ==
    LET idx == {i \in 1..(Len(s) - Len(pat) + 1) :
                    SubSeq(s, i, i + Len(pat) - 1) = pat}
    IN  IF idx = {} THEN 0 ELSE CHOOSE i \in idx : \A j \in idx : i <= j

\* str::contains
contains(s, pat) == find(s, pat) # 0

\* str::split_once: None, or Some((left, right)) around the first occurrence
split_once(s, pat) ==
    LET i == find(s, pat)
    IN  IF i = 0
        THEN [some |-> FALSE]
        ELSE [some |-> TRUE,
              left |-> SubSeq(s, 1, i - 1),
              right |-> SubSeq(s, i + Len(pat), Len(s))]

\* the markers of the shortcode escaper
OpenBrace == <<"{", "{">>
CloseBrace == <<"}", "}">>
OpenPercent == <<"{", "%">>
ClosePercent == <<"%", "}">>
\* the disguise wrappers written by format!("<!--{{{{{}}}}}-->") and
\* format!("<!--{{%{}%}}-->")
WrapOpenBrace == <<"<", "!", "-", "-", "{", "{">>
WrapCloseBrace == <<"}", "}", "-", "-", ">">>
WrapOpenPercent == <<"<", "!", "-", "-", "{", "%">>
WrapClosePercent == <<"%", "}", "-", "-", ">">>

(***************************************************************************)
(* Shortcode escaper / unescaper (cmark_xml/src/lib.rs).                   *)
(***************************************************************************)
\* scan_loop with the unterminated span copied through instead of wrapped
RECURSIVE scan_loop_unwrapped_tail(_, _, _, _, _)
scan_loop_unwrapped_tail(substr, open, close, wopen, wclose) ==
    LET o == split_once(substr, open)
    IN  IF ~o.some
        THEN substr
        ELSE LET c == split_once(o.right, close)
             IN  IF c.some
                 THEN o.left \o wopen \o c.left \o wclose
                        \o scan_loop_unwrapped_tail(c.right, open, close, wopen, wclose)
                 ELSE o.left \o open \o o.right

\* One `while let Some((left, right)) = substr.split_once(open)` loop with
\* the trailing `out += substr`: every open..close span is rewritten to
\* wopen..wclose; an open marker with no close marker takes the rest of the
\* text as its body and ends the loop.
RECURSIVE scan_loop(_, _, _, _, _)
scan_loop(substr, open, close, wopen, wclose) ==
    LET o == split_once(substr, open)
    IN  IF ~o.some
        THEN substr
        ELSE LET c == split_once(o.right, close)
             IN  IF c.some
                 THEN o.left \o wopen \o c.left \o wclose
                        \o scan_loop(c.right, open, close, wopen, wclose)
                 ELSE o.left \o wopen \o o.right \o wclose

\* whether a scan of substr takes the branch "no close marker found"
RECURSIVE swallows(_, _, _)
swallows(substr, open, close) ==
    LET o == split_once(substr, open)
    IN  IF ~o.some
        THEN FALSE
        ELSE LET c == split_once(o.right, close)
             IN  IF c.some THEN swallows(c.right, open, close) ELSE TRUE

\* escape {{ ... }}
escape_braces(cmark) ==
    scan_loop(cmark, OpenBrace, CloseBrace, WrapOpenBrace, WrapCloseBrace)

\* escape {% ... %}
escape_percents(escaped1) ==
    scan_loop(escaped1, OpenPercent, ClosePercent, WrapOpenPercent, WrapClosePercent)

escape_all_shortcodes(cmark) == escape_percents(escape_braces(cmark))

\* restore {% ... %}
restore_percents(esc) ==
    scan_loop(esc, WrapOpenPercent, WrapClosePercent, OpenPercent, ClosePercent)

\* restore_braces searching for "}}" alone, so that the "-->" stays behind
restore_braces_short_close(restored1) ==
    scan_loop(restored1, WrapOpenBrace, CloseBrace, OpenBrace, CloseBrace)

\* restore {{ ... }}
restore_braces(restored1) ==
    scan_loop(restored1, WrapOpenBrace, WrapCloseBrace, OpenBrace, CloseBrace)

\* unescape that restores the braces before the percents
unescape_braces_first(esc) == restore_percents(restore_braces(esc))

unescape_all_shortcodes(esc) == restore_braces(restore_percents(esc))

(***************************************************************************)
(* Numbers as attribute text.                                              *)
(***************************************************************************)
DigitChars == <<"0", "1", "2", "3", "4", "5", "6", "7", "8", "9">>

IsDigit(c) == \E d \in 1..Len(DigitChars) : DigitChars[d] = c

DigitValue(c) == (CHOOSE d \in 1..Len(DigitChars) : DigitChars[d] = c) - 1

\* ToString::to_string of an unsigned integer: its decimal digits
RECURSIVE to_string(_)
to_string(n) ==
    IF n < 10
    THEN <<DigitChars[n + 1]>>
    ELSE to_string(n \div 10) \o <<DigitChars[(n % 10) + 1]>>

\* value of a sequence of decimal digits
RECURSIVE DecimalValue(_)
DecimalValue(ds) ==
    IF ds = <<>>
    THEN 0
    ELSE DecimalValue(SubSeq(ds, 1, Len(ds) - 1)) * 10 + DigitValue(ds[Len(ds)])

\* largest value of the u8 that NodeHtmlBlock::block_type is parsed into
U8Max == 255

\* str::parse::<unsigned>(): Ok(n) for an optional "+" followed by one or
\* more decimal digits whose value fits the type, Err otherwise.  max is the
\* largest value of the type, or -1 for usize and u32, whose limit no
\* numeral of the modelled length reaches.
parse(v, max) ==
    LET ds == IF v # <<>> /\ v[1] = "+" THEN Tail(v) ELSE v
    IN  IF ds = <<>> \/ \E i \in 1..Len(ds) : ~IsDigit(ds[i])
        THEN [ok |-> FALSE]
        ELSE IF max >= 0 /\ DecimalValue(ds) > max
        THEN [ok |-> FALSE]
        ELSE [ok |-> TRUE, val |-> DecimalValue(ds)]

\* `bool as i32`
bool_as_i32(b) == IF b THEN 1 ELSE 0

(***************************************************************************)
(* The two trees.                                                          *)
(***************************************************************************)
\* comrak::nodes::AstNode: a NodeValue and its children, in order
AstNode(value, children) == [value |-> value, children |-> children]

\* minidom::Node::Element and minidom::Node::Text
Element(name, attrs, nodes) == [name |-> name, attrs |-> attrs, nodes |-> nodes]
TextNode(t) == [text |-> t]
IsElement(n) == "name" \in DOMAIN n

\* Element::bare: no attribute, no child
bare(name) == Element(name, <<>>, <<>>)

\* Element::attr: Some(value) when the attribute is present, None otherwise
attr(xml_elm, name) ==
    IF name \in DOMAIN xml_elm.attrs
    THEN [some |-> TRUE, val |-> xml_elm.attrs[name]]
    ELSE [some |-> FALSE]

\* Element::text: the element's direct text children, concatenated
RECURSIVE concat_texts(_)
concat_texts(nodes) ==
    IF nodes = <<>>
    THEN <<>>
    ELSE (IF IsElement(Head(nodes)) THEN <<>> ELSE Head(nodes).text)
            \o concat_texts(Tail(nodes))

text(xml_elm) == concat_texts(xml_elm.nodes)

\* parse_attr_or that never reads the attribute
parse_attr_or_unread(xml_elm, name, dflt, max) == dflt

\* xml_elm.attr(name).map_or(dflt, |v| v.parse().unwrap_or(dflt))
parse_attr_or(xml_elm, name, dflt, max) ==
    LET a == attr(xml_elm, name)
    IN  IF ~a.some
        THEN dflt
        ELSE LET p == parse(a.val, max) IN IF p.ok THEN p.val ELSE dflt

\* Vec::from(xml_elm.attr(name).unwrap_or(""))
attr_or_empty(xml_elm, name) ==
    LET a == attr(xml_elm, name) IN IF a.some THEN a.val ELSE <<>>

(***************************************************************************)
(* Tree projector: xml_from_ast.                                           *)
(***************************************************************************)
\* the attributes of a `ul`, `ol` or `li` element
list_attrs(nl) ==
    ("type" :> (IF nl.list_type = "Ordered" THEN <<"o">> ELSE <<"u">>))
    @@ ("offset" :> to_string(nl.marker_offset))
    @@ ("padding" :> to_string(nl.padding))
    @@ ("start" :> to_string(nl.start))
    @@ ("delimiter" :> (IF nl.delimiter = "Period" THEN <<".">> ELSE <<")">>))
    @@ ("tight" :> to_string(bool_as_i32(nl.tight)))

\* the `align` attribute of a `table` element: one character per column
align_char(v) ==
    CASE v = "None" -> "-"
      [] v = "Left" -> "l"
      [] v = "Center" -> "c"
      [] v = "Right" -> "r"

align_str(align) == [i \in 1..Len(align) |-> align_char(align[i])]

\* the name of a heading element: format!("h{}", hd.level)
RECURSIVE join_chars(_)
join_chars(cs) == IF cs = <<>> THEN "" ELSE Head(cs) \o join_chars(Tail(cs))

\* a heading that borrows the paragraph's tag
heading_name_as_paragraph(level) == "p"

\* a heading tag that does not carry the level
heading_name_unnumbered(level) == "h"

heading_name(level) == "h" \o join_chars(to_string(level))

\* `match &ast.value`: the XML node of one AST node, before its children
xml_node_of(v) ==
    CASE v.kind = "Document" -> bare("body")
      [] v.kind = "FrontMatter" -> Element("header", <<>>, <<TextNode(v.text)>>)
      [] v.kind = "BlockQuote" -> bare("blockquote")
      [] v.kind = "List" ->
            Element(IF v.list_type = "Ordered" THEN "ol" ELSE "ul",
                    list_attrs(v), <<>>)
      [] v.kind = "Item" -> Element("li", list_attrs(v), <<>>)
      [] v.kind = "DescriptionList" -> bare("dl")
      [] v.kind = "DescriptionItem" ->
            Element("di",
                    ("offset" :> to_string(v.marker_offset))
                    @@ ("padding" :> to_string(v.padding)),
                    <<>>)
      [] v.kind = "DescriptionTerm" -> bare("dt")
      [] v.kind = "DescriptionDetails" -> bare("dd")
      [] v.kind = "CodeBlock" ->
            Element("pre", "info" :> v.info, <<TextNode(v.literal)>>)
      [] v.kind = "HtmlBlock" ->
            Element("object",
                    ("type" :> to_string(v.block_type))
                    @@ ("literal" :> v.literal),
                    <<>>)
      [] v.kind = "Paragraph" -> bare("p")
      [] v.kind = "Heading" ->
            Element(heading_name(v.level), "level" :> to_string(v.level), <<>>)
      [] v.kind = "ThematicBreak" -> bare("hr")
      [] v.kind = "FootnoteDefinition" ->
            Element("footer", "name" :> v.name, <<>>)
      [] v.kind = "Table" ->
            Element("table", "align" :> align_str(v.align), <<>>)
      [] v.kind = "TableRow" -> IF v.header THEN bare("th") ELSE bare("tr")
      [] v.kind = "TableCell" -> bare("td")
      [] v.kind = "Text" -> TextNode(v.text)
      [] v.kind = "TaskItem" ->
            Element("input",
                    "checked" :> to_string(bool_as_i32(v.checked)), <<>>)
      [] v.kind = "SoftBreak" -> bare("wbr")
      [] v.kind = "LineBreak" -> bare("br")
      [] v.kind = "Code" -> Element("code", "literal" :> v.literal, <<>>)
      [] v.kind = "HtmlInline" -> Element("embed", "literal" :> v.literal, <<>>)
      [] v.kind = "Emph" -> bare("em")
      [] v.kind = "Strong" -> bare("strong")
      [] v.kind = "Strikethrough" -> bare("del")
      [] v.kind = "Superscript" -> bare("sup")
      [] v.kind = "Link" ->
            Element("a", ("href" :> v.url) @@ ("title" :> v.title), <<>>)
      [] v.kind = "Image" ->
            Element("img", ("src" :> v.url) @@ ("title" :> v.title), <<>>)
      [] v.kind = "FootnoteReference" ->
            Element("sub", "name" :> v.name, <<>>)

\* a projector that appends the projected children last to first
RECURSIVE xml_from_ast_reversed(_)
xml_from_ast_reversed(ast_node) ==
    LET xml_node == xml_node_of(ast_node.value)
        n == Len(ast_node.children)
    IN  IF IsElement(xml_node)
        THEN [xml_node EXCEPT !.nodes =
                @ \o [i \in 1..n |->
                        xml_from_ast_reversed(ast_node.children[n + 1 - i])]]
        ELSE xml_node

\* xml_from_ast: the node of the value, then (for an element) the projected
\* children appended in order
RECURSIVE xml_from_ast(_)
xml_from_ast(ast_node) ==
    LET xml_node == xml_node_of(ast_node.value)
    IN  IF IsElement(xml_node)
        THEN [xml_node EXCEPT !.nodes =
                @ \o [i \in 1..Len(ast_node.children) |->
                        xml_from_ast(ast_node.children[i])]]
        ELSE xml_node

(***************************************************************************)
(* Tree reconstructor: ast_from_xml.                                       *)
(***************************************************************************)
\* the value a panicking call leaves in place of a node
Panic == [kind |-> "Panic"]

Text(t) == [kind |-> "Text", text |-> t]

\* node_list_from_xml with list numbering defaulting to 1
node_list_from_xml_start_one(kind, xml_elm) ==
    [kind |-> kind,
     list_type |-> IF attr(xml_elm, "type") = [some |-> TRUE, val |-> <<"o">>]
                   THEN "Ordered" ELSE "Bullet",
     marker_offset |-> parse_attr_or(xml_elm, "offset", 0, -1),
     padding |-> parse_attr_or(xml_elm, "padding", 0, -1),
     start |-> parse_attr_or(xml_elm, "start", 1, -1),
     delimiter |-> "Period",
     bullet_char |-> 45,
     tight |-> attr(xml_elm, "tight") = [some |-> TRUE, val |-> <<"1">>]]

\* node_list_from_xml taking every tight value but "0" as true
node_list_from_xml_tight_unless_zero(kind, xml_elm) ==
    [kind |-> kind,
     list_type |-> IF attr(xml_elm, "type") = [some |-> TRUE, val |-> <<"o">>]
                   THEN "Ordered" ELSE "Bullet",
     marker_offset |-> parse_attr_or(xml_elm, "offset", 0, -1),
     padding |-> parse_attr_or(xml_elm, "padding", 0, -1),
     start |-> parse_attr_or(xml_elm, "start", 0, -1),
     delimiter |-> "Period",
     bullet_char |-> 45,
     tight |-> attr(xml_elm, "tight") \notin
                    {[some |-> FALSE], [some |-> TRUE, val |-> <<"0">>]}]

\* node_list_from_xml that takes the list type from the tag name
node_list_from_xml_by_tag(kind, xml_elm) ==
    [kind |-> kind,
     list_type |-> IF xml_elm.name = "ol" THEN "Ordered" ELSE "Bullet",
     marker_offset |-> parse_attr_or(xml_elm, "offset", 0, -1),
     padding |-> parse_attr_or(xml_elm, "padding", 0, -1),
     start |-> parse_attr_or(xml_elm, "start", 0, -1),
     delimiter |-> "Period",
     bullet_char |-> 45,
     tight |-> attr(xml_elm, "tight") = [some |-> TRUE, val |-> <<"1">>]]

\* node_list_from_xml: the NodeList of a `ul`, `ol` or `li` element
node_list_from_xml(kind, xml_elm) ==
    [kind |-> kind,
     list_type |-> IF attr(xml_elm, "type") = [some |-> TRUE, val |-> <<"o">>]
                   THEN "Ordered" ELSE "Bullet",
     marker_offset |-> parse_attr_or(xml_elm, "offset", 0, -1),
     padding |-> parse_attr_or(xml_elm, "padding", 0, -1),
     start |-> parse_attr_or(xml_elm, "start", 0, -1),
     delimiter |-> "Period",
     bullet_char |-> 45,      \* '-' as u8
     tight |-> attr(xml_elm, "tight") = [some |-> TRUE, val |-> <<"1">>]]

\* align_of without the arm for 'c'
align_of_no_center(c) ==
    CASE c = "l" -> "Left"
      [] c = "r" -> "Right"
      [] OTHER -> "None"

\* an alignment decoder that also reads the upper-case letters
align_of_any_case(c) ==
    CASE c \in {"l", "L"} -> "Left"
      [] c \in {"c", "C"} -> "Center"
      [] c \in {"r", "R"} -> "Right"
      [] OTHER -> "None"

\* the alignment of one character of the `align` attribute
align_of(c) ==
    CASE c = "l" -> "Left"
      [] c = "c" -> "Center"
      [] c = "r" -> "Right"
      [] OTHER -> "None"

HeadingNames == {"h1", "h2", "h3", "h4", "h5", "h6"}

\* a heading level read off the tag name
heading_level_from_tag(xml_elm) ==
    CHOOSE l \in 1..6 : heading_name(l) = xml_elm.name

\* xml_elm.attr("level").map_or(1, |v| v.parse().unwrap_or(1))
heading_level(xml_elm) == parse_attr_or(xml_elm, "level", 1, -1)

\* `match xml_elm.name()`: the NodeValue of one element
nodeval_of(xml_elm) ==
    LET name == xml_elm.name
    IN  CASE name = "body" -> [kind |-> "Document"]
          [] name = "header" -> [kind |-> "FrontMatter", text |-> text(xml_elm)]
          [] name = "blockquote" -> [kind |-> "BlockQuote"]
          [] name \in {"ul", "ol"} -> node_list_from_xml("List", xml_elm)
          [] name = "li" -> node_list_from_xml("Item", xml_elm)
          [] name = "dl" -> [kind |-> "DescriptionList"]
          [] name = "di" ->
                [kind |-> "DescriptionItem",
                 marker_offset |-> parse_attr_or(xml_elm, "offset", 0, -1),
                 padding |-> parse_attr_or(xml_elm, "padding", 0, -1)]
          [] name = "dt" -> [kind |-> "DescriptionTerm"]
          [] name = "dd" -> [kind |-> "DescriptionDetails"]
          [] name = "pre" ->
                [kind |-> "CodeBlock",
                 fenced |-> TRUE,
                 fence_char |-> 96,       \* the grave accent, as u8
                 fence_length |-> 3,
                 fence_offset |-> 0,
                 info |-> attr_or_empty(xml_elm, "info"),
                 literal |-> text(xml_elm)]
          [] name = "object" ->
                [kind |-> "HtmlBlock",
                 block_type |-> parse_attr_or(xml_elm, "type", 0, U8Max),
                 literal |-> attr_or_empty(xml_elm, "literal")]
          [] name = "p" -> [kind |-> "Paragraph"]
          [] name \in HeadingNames ->
                [kind |-> "Heading",
                 level |-> heading_level(xml_elm),
                 setext |-> FALSE]
          [] name = "hr" -> [kind |-> "ThematicBreak"]
          [] name = "footer" ->
                [kind |-> "FootnoteDefinition",
                 name |-> attr_or_empty(xml_elm, "name")]
          [] name = "table" ->
                LET a == attr(xml_elm, "align")
                IN  IF a.some
                    THEN [kind |-> "Table",
                          align |-> [i \in 1..Len(a.val) |-> align_of(a.val[i])]]
                    ELSE Panic
          [] name = "th" -> [kind |-> "TableRow", header |-> TRUE]
          [] name = "tr" -> [kind |-> "TableRow", header |-> FALSE]
          [] name = "td" -> [kind |-> "TableCell"]
          [] name = "input" ->
                [kind |-> "TaskItem",
                 checked |->
                    attr(xml_elm, "checked") = [some |-> TRUE, val |-> <<"1">>]]
          [] name = "wbr" -> [kind |-> "SoftBreak"]
          [] name = "br" -> [kind |-> "LineBreak"]
          [] name = "code" ->
                [kind |-> "Code",
                 num_backticks |-> 1,
                 literal |-> attr_or_empty(xml_elm, "literal")]
          [] name = "embed" ->
                [kind |-> "HtmlInline",
                 literal |-> attr_or_empty(xml_elm, "literal")]
          [] name = "em" -> [kind |-> "Emph"]
          [] name = "strong" -> [kind |-> "Strong"]
          [] name = "del" -> [kind |-> "Strikethrough"]
          [] name = "sup" -> [kind |-> "Superscript"]
          [] name = "a" ->
                [kind |-> "Link",
                 url |-> attr_or_empty(xml_elm, "href"),
                 title |-> attr_or_empty(xml_elm, "title")]
          [] name = "img" ->
                [kind |-> "Image",
                 url |-> attr_or_empty(xml_elm, "src"),
                 title |-> attr_or_empty(xml_elm, "title")]
          [] name = "sub" ->
                [kind |-> "FootnoteReference",
                 name |-> attr_or_empty(xml_elm, "name")]
          [] OTHER -> Text(<<>>)

\* a reconstructor that descends into every element
iterates_every_tag(name) == TRUE

\* the second `match xml_elm.name()`: the elements whose children are read
iterates_children(name) == name \notin {"header", "pre"}

\* ast_from_xml: the node of the element, then one child per XML child, in
\* order (an element child by recursion, a text child as a Text node).  A
\* panic while the value or a child is built ends the whole call.
RECURSIVE ast_from_xml(_)
ast_from_xml(xml_elm) ==
    LET nodeval == nodeval_of(xml_elm)
        children ==
            IF iterates_children(xml_elm.name)
            THEN [i \in 1..Len(xml_elm.nodes) |->
                    IF IsElement(xml_elm.nodes[i])
                    THEN ast_from_xml(xml_elm.nodes[i])
                    ELSE AstNode(Text(xml_elm.nodes[i].text), <<>>)]
            ELSE <<>>
    IN  IF nodeval = Panic \/ \E i \in 1..Len(children) : children[i] = Panic
        THEN Panic
        ELSE AstNode(nodeval, children)

(***************************************************************************)
(* Input texts.                                                            *)
(***************************************************************************)
Tokens ==
    { OpenBrace, CloseBrace, OpenPercent, ClosePercent,
      <<"<", "!", "-", "-">>, <<"-", "-", ">">>, <<"a">>, <<"%">> }

RECURSIVE Flatten(_)
Flatten(ts) == IF ts = <<>> THEN <<>> ELSE Head(ts) \o Flatten(Tail(ts))

Example1 ==
    <<
       "S", "e", "e", " ", "{", "{", " ", "s", "h", "o", "r", "t",
       "c", "o", "d", "e", " ", "a", " ", "}", "}", " ", "a", "n",
       "d", " ", "{", "%", " ", "t", "a", "g", " ", "b", " ", "%",
       "}", " ", "h", "e", "r", "e", "."
    >>

Example1Escaped ==
    <<
       "S", "e", "e", " ", "<", "!", "-", "-", "{", "{", " ", "s",
       "h", "o", "r", "t", "c", "o", "d", "e", " ", "a", " ", "}",
       "}", "-", "-", ">", " ", "a", "n", "d", " ", "<", "!", "-",
       "-", "{", "%", " ", "t", "a", "g", " ", "b", " ", "%", "}",
       "-", "-", ">", " ", "h", "e", "r", "e", "."
    >>

Example2 ==
    <<
       "p", "r", "e", "f", "i", "x", " ", "{", "{", " ", "o", "o",
       "p", "s"
    >>

Example2Escaped ==
    <<
       "p", "r", "e", "f", "i", "x", " ", "<", "!", "-", "-", "{",
       "{", " ", "o", "o", "p", "s", "}", "}", "-", "-", ">"
    >>

Texts ==
    {Flatten(ts) : ts \in UNION {[1..n -> Tokens] : n \in 0..MaxTokens}}
        \cup {Example1, Example2}

(***************************************************************************)
(* Input trees: what comrak::parse_document can hand to xml_from_ast.      *)
(***************************************************************************)
\* text payloads
Strs == {<<>>, <<"a">>, <<"b", "c">>}

\* all sequences over S of length 0..n
SeqsUpTo(S, n) == UNION {[1..k -> S] : k \in 0..n}

Alignments == {"None", "Left", "Center", "Right"}

HeadingLevels == 1..6

NodeListValues(kind) ==
    {[kind |-> kind, list_type |-> lt, marker_offset |-> mo, padding |-> pd,
      start |-> st, delimiter |-> dl, bullet_char |-> bc, tight |-> tg] :
        lt \in {"Bullet", "Ordered"}, mo \in {0, 2}, pd \in {2, 3},
        st \in {1, 5, MaxNum}, dl \in {"Period", "Paren"},
        bc \in {45, 42}, tg \in BOOLEAN}

\* the kinds without fields
PlainKinds ==
    {"BlockQuote", "DescriptionList", "DescriptionTerm", "DescriptionDetails",
     "Paragraph", "ThematicBreak", "TableCell", "SoftBreak", "LineBreak",
     "Emph", "Strong", "Strikethrough", "Superscript"}

\* the kinds that never own children
LeafKinds ==
    {"FrontMatter", "CodeBlock", "HtmlBlock", "ThematicBreak", "Text",
     "TaskItem", "SoftBreak", "LineBreak", "Code", "HtmlInline",
     "FootnoteReference"}

NodeValues ==
    {[kind |-> k] : k \in PlainKinds}
    \cup {[kind |-> "FrontMatter", text |-> t] : t \in Strs}
    \cup NodeListValues("List")
    \cup NodeListValues("Item")
    \cup {[kind |-> "DescriptionItem", marker_offset |-> mo, padding |-> pd] :
            mo \in {0, 2, MaxNum}, pd \in {0, 3}}
    \cup {[kind |-> "CodeBlock", fenced |-> fe, fence_char |-> fc,
           fence_length |-> fl, fence_offset |-> 0, info |-> i, literal |-> l] :
            fe \in BOOLEAN, fc \in {96, 126}, fl \in {3, 4},
            i \in Strs, l \in Strs}
    \cup {[kind |-> "HtmlBlock", block_type |-> bt, literal |-> l] :
            bt \in 0..7, l \in Strs}
    \cup {[kind |-> "Heading", level |-> lv, setext |-> se] :
            lv \in HeadingLevels, se \in BOOLEAN}
    \cup {[kind |-> "FootnoteDefinition", name |-> n] : n \in Strs}
    \cup {[kind |-> "Table", align |-> a] : a \in SeqsUpTo(Alignments, MaxCols)}
    \cup {[kind |-> "TableRow", header |-> h] : h \in BOOLEAN}
    \cup {Text(t) : t \in Strs}
    \cup {[kind |-> "TaskItem", checked |-> c] : c \in BOOLEAN}
    \cup {[kind |-> "Code", num_backticks |-> nb, literal |-> l] :
            nb \in {1, 2}, l \in Strs}
    \cup {[kind |-> "HtmlInline", literal |-> l] : l \in Strs}
    \cup {[kind |-> "Link", url |-> u, title |-> t] : u \in Strs, t \in Strs}
    \cup {[kind |-> "Image", url |-> u, title |-> t] : u \in Strs, t \in Strs}
    \cup {[kind |-> "FootnoteReference", name |-> n] : n \in Strs}

Document(children) == AstNode([kind |-> "Document"], children)

\* one node of every value under the root, a container with two children
KindDocs ==
    {Document(<<AstNode(v,
                IF v.kind \in LeafKinds
                THEN <<>>
                ELSE <<AstNode(Text(<<"a">>), <<>>),
                       AstNode([kind |-> "Emph"],
                               <<AstNode(Text(<<"b">>), <<>>)>>)>>)>>) :
        v \in NodeValues}

\* every ordered tree shape of up to MaxNodes nodes below the root
ShapeValues ==
    {[kind |-> "BlockQuote"], [kind |-> "Paragraph"], [kind |-> "Emph"],
     Text(<<"a">>), Text(<<"b">>)}

RECURSIVE AstTreesOfSize(_), AstForestsOfSize(_)
AstTreesOfSize(n) ==
    {AstNode(v, f) : v \in {w \in ShapeValues : n = 1 \/ w.kind \notin LeafKinds},
                     f \in AstForestsOfSize(n - 1)}

AstForestsOfSize(m) ==
    IF m = 0
    THEN {<<>>}
    ELSE UNION {{<<t>> \o f : t \in AstTreesOfSize(k),
                              f \in AstForestsOfSize(m - k)} : k \in 1..m}

ShapeDocs == {Document(f) : f \in UNION {AstForestsOfSize(m) : m \in 0..MaxNodes}}

Documents == KindDocs \cup ShapeDocs

(***************************************************************************)
(* Input elements: what the translation service can hand back to           *)
(* cmark_from_xmldom.  Attributes may be missing or hold any text, tags    *)
(* may be unknown, children may be anything.                               *)
(***************************************************************************)
\* the tag names ast_from_xml matches
Vocabulary ==
    {"body", "header", "blockquote", "ul", "ol", "li", "dl", "di", "dt", "dd",
     "pre", "object", "p", "hr", "footer", "table", "th", "tr", "td", "input",
     "wbr", "br", "code", "embed", "em", "strong", "del", "sup", "a", "img",
     "sub"} \cup HeadingNames

UnknownTags == {"foobar", "div"}

\* the attribute names ast_from_xml reads, per tag
AttrNames(name) ==
    CASE name \in {"ul", "ol", "li"} ->
            {"type", "offset", "padding", "start", "delimiter", "tight"}
      [] name = "di" -> {"offset", "padding"}
      [] name = "pre" -> {"info"}
      [] name = "object" -> {"type", "literal"}
      [] name \in HeadingNames -> {"level"}
      [] name \in {"footer", "sub"} -> {"name"}
      [] name = "table" -> {"align"}
      [] name = "input" -> {"checked"}
      [] name \in {"code", "embed"} -> {"literal"}
      [] name = "a" -> {"href", "title"}
      [] name = "img" -> {"src", "title"}
      [] OTHER -> {}

\* attribute texts: numerals, other text, and what a translator may leave
AttrTexts ==
    {<<"0">>, <<"1">>, <<"4">>, <<"7">>, <<"9", "9">>, <<"1", "2">>, <<"0", "7">>,
     <<"2", "5", "5">>, <<"2", "5", "6">>, <<"+", "3">>, <<"-", "1">>,
     <<" ", "1">>, <<"1", ".", "5">>, <<"x">>, <<>>, <<"o">>, <<"u">>, <<"O">>,
     <<"t", "r", "u", "e">>, <<".">>, <<")">>,
     <<"l", "c", "r", "-">>, <<"L", "x", " ", "r">>}

\* an attribute that is not there
Missing == <<"missing">>

\* the attribute map without its missing attributes
Present(f) == [a \in {b \in DOMAIN f : f[b] # Missing} |-> f[a]]

\* a list element with every combination of present, broken and missing
\* attributes
ListElements ==
    {Element(name,
             Present([type |-> ty, offset |-> mo, padding |-> pd, start |-> st,
                      delimiter |-> dl, tight |-> tg]),
             <<>>) :
        name \in {"ul", "ol", "li"},
        ty \in {Missing, <<"o">>, <<"u">>},
        mo \in {Missing, <<"7">>, <<"x">>},
        pd \in {Missing, <<"7">>, <<"x">>},
        st \in {Missing, <<"7">>, <<"x">>},
        dl \in {Missing, <<")">>},
        tg \in {Missing, <<"1">>, <<"0">>}}

\* an element with one attribute, holding any of the texts
OneAttrElements ==
    UNION {{Element(name, a :> v, <<TextNode(<<"a">>)>>) :
                a \in AttrNames(name), v \in AttrTexts} :
           name \in Vocabulary}

\* an element without attributes over every forest of up to MaxNodes nodes
RECURSIVE XmlTreesOfSize(_), XmlForestsOfSize(_)
XmlTreesOfSize(n) ==
    (IF n = 1 THEN {TextNode(<<"a">>), TextNode(<<>>)} ELSE {})
    \cup {Element(name, <<>>, f) : name \in {"p", "foobar"},
                                   f \in XmlForestsOfSize(n - 1)}

XmlForestsOfSize(m) ==
    IF m = 0
    THEN {<<>>}
    ELSE UNION {{<<t>> \o f : t \in XmlTreesOfSize(k),
                              f \in XmlForestsOfSize(m - k)} : k \in 1..m}

BareElements ==
    {Element(name, <<>>, f) :
        name \in Vocabulary \cup UnknownTags,
        f \in UNION {XmlForestsOfSize(m) : m \in 0..MaxNodes}}

ReceivedElements == ListElements \cup OneAttrElements \cup BareElements

ReceivedXml == {Element("body", <<>>, <<e>>) : e \in ReceivedElements}

\* a value for the variables a pipeline does not use
NoText == <<>>
NoTree == [kind |-> "None"]

(***************************************************************************)
(* The escaper pipeline: xmldom_from_cmark escapes the text before it is   *)
(* parsed, cmark_from_xmldom unescapes the serialised text.                *)
(***************************************************************************)
\* nothing has been read, sent or invoked
ReaderIdle == buf = NoText /\ read_result = NoTree

DeeplIdle ==
    job = NoTree /\ request = NoTree /\ reply = NoTree /\ translated = NoTree

FileIdle ==
    /\ fs = NoTree
    /\ translated_frontmatter = NoTree
    /\ translated_cmark = NoTree
    /\ outcome = NoTree

OthersIdle == ReaderIdle /\ DeeplIdle /\ calls = <<>> /\ FileIdle

InitEsc ==
    /\ pc = "text"
    /\ cmark_text \in Texts
    /\ escaped = NoText
    /\ restored = NoText
    /\ ast_root = NoTree
    /\ xml_root = NoTree
    /\ ast_back = NoTree
    /\ OthersIdle

Escape ==
    /\ pc = "text"
    /\ escaped' = escape_all_shortcodes(cmark_text)
    /\ pc' = "escaped"
    /\ UNCHANGED <<cmark_text, restored, ast_root, xml_root, ast_back>>
    /\ UNCHANGED <<readVars, deeplVars, calls, fileVars>>

Unescape ==
    /\ pc = "escaped"
    /\ restored' = unescape_all_shortcodes(escaped)
    /\ pc' = "unescaped"
    /\ UNCHANGED <<cmark_text, escaped, ast_root, xml_root, ast_back>>
    /\ UNCHANGED <<readVars, deeplVars, calls, fileVars>>

NextEsc == Escape \/ Unescape

SpecEsc == InitEsc /\ [][NextEsc]_vars

(***************************************************************************)
(* cmark_from_xmldom alone: the text the formatter wrote for a received    *)
(* element is unescaped, whatever wrappers it holds.                       *)
(***************************************************************************)
\* the pieces formatted texts are built from
FormattedTokens ==
    { WrapOpenBrace, WrapCloseBrace, WrapOpenPercent, WrapClosePercent,
      OpenBrace, <<"-", "-", ">">>, <<"a">>, <<"%">> }

FormattedTexts ==
    {Flatten(ts) : ts \in UNION {[1..n -> FormattedTokens] : n \in 0..MaxTokens}}

InitFormatted ==
    /\ pc = "formatted"
    /\ cmark_text = NoText
    /\ escaped \in FormattedTexts
    /\ restored = NoText
    /\ ast_root = NoTree
    /\ xml_root = NoTree
    /\ ast_back = NoTree
    /\ OthersIdle

UnescapeFormatted ==
    /\ pc = "formatted"
    /\ restored' = unescape_all_shortcodes(escaped)
    /\ pc' = "restored"
    /\ UNCHANGED <<cmark_text, escaped, ast_root, xml_root, ast_back>>
    /\ UNCHANGED <<readVars, deeplVars, calls, fileVars>>

NextFormatted == UnescapeFormatted

SpecFormatted == InitFormatted /\ [][NextFormatted]_vars

(***************************************************************************)
(* The tree pipeline: xmldom_from_cmark projects the parsed document,      *)
(* cmark_from_xmldom reconstructs a document from the element it is given. *)
(***************************************************************************)
InitTree ==
    /\ OthersIdle
    /\ cmark_text = NoText
    /\ escaped = NoText
    /\ restored = NoText
    /\ ast_back = NoTree
    /\ \/ /\ pc = "parsed"
          /\ ast_root \in Documents
          /\ xml_root = NoTree
       \/ /\ pc = "received"
          /\ ast_root = NoTree
          /\ xml_root \in ReceivedXml

Project ==
    /\ pc = "parsed"
    /\ xml_root' = xml_from_ast(ast_root)
    /\ pc' = "projected"
    /\ UNCHANGED <<cmark_text, escaped, restored, ast_root, ast_back>>
    /\ UNCHANGED <<readVars, deeplVars, calls, fileVars>>

Reconstruct ==
    /\ pc \in {"projected", "received"}
    /\ ast_back' = ast_from_xml(xml_root)
    /\ pc' = "reconstructed"
    /\ UNCHANGED <<cmark_text, escaped, restored, ast_root, xml_root>>
    /\ UNCHANGED <<readVars, deeplVars, calls, fileVars>>

NextTree == Project \/ Reconstruct

SpecTree == InitTree /\ [][NextTree]_vars

(***************************************************************************)
(* The front matter reader: read_cmark_with_frontmatter splits the text of *)
(* a file into the front matter and the CommonMark body.                   *)
(***************************************************************************)
MaxPieces == 4

TomlDelimiter == <<"+", "+", "+">>

YamlDelimiter == <<"-", "-", "-">>

\* str::starts_with
starts_with(s, pat) == Len(pat) <= Len(s) /\ SubSeq(s, 1, Len(pat)) = pat

\* a split that cuts at the first and at the last occurrence
splitn_at_last(s, n, pat) ==
    LET cut == split_once(s, pat)
        idx == IF cut.some
               THEN {i \in 1..(Len(cut.right) - Len(pat) + 1) :
                        SubSeq(cut.right, i, i + Len(pat) - 1) = pat}
               ELSE {}
        last == CHOOSE i \in idx : \A j \in idx : j <= i
    IN  IF ~cut.some THEN <<s>>
        ELSE IF idx = {} THEN <<cut.left, cut.right>>
        ELSE <<cut.left, SubSeq(cut.right, 1, last - 1),
               SubSeq(cut.right, last + Len(pat), Len(cut.right))>>

\* str::splitn: at most n pieces, the last one the unsplit remainder
RECURSIVE splitn(_, _, _)
splitn(s, n, pat) ==
    LET cut == split_once(s, pat)
    IN  IF n <= 1 \/ ~cut.some
        THEN <<s>>
        ELSE <<cut.left>> \o splitn(cut.right, n - 1, pat)

ReadOk(cmark_body, frontmatter) ==
    [kind |-> "Ok", body |-> cmark_body, frontmatter |-> frontmatter]

UnexpectedEof == [kind |-> "Err", error |-> "UnexpectedEof"]

\* a front matter reader that hands back the rest of the file as the body
\* when the closing delimiter is missing
split_frontmatter_rest_as_body(filebody, delimiter) ==
    LET iter == splitn(filebody, 3, delimiter)
    IN  IF Len(iter) = 3
        THEN ReadOk(iter[3], [some |-> TRUE, val |-> iter[2]])
        ELSE ReadOk(iter[Len(iter)], [some |-> FALSE])

split_frontmatter(filebody, delimiter) ==
    LET iter == splitn(filebody, 3, delimiter)
    IN  IF Len(iter) = 3
        THEN ReadOk(iter[3], [some |-> TRUE, val |-> iter[2]])
        ELSE UnexpectedEof

read_cmark_with_frontmatter(text_read) ==
    IF starts_with(text_read, TomlDelimiter)
    THEN split_frontmatter(text_read, TomlDelimiter)
    ELSE IF starts_with(text_read, YamlDelimiter)
         THEN split_frontmatter(text_read, YamlDelimiter)
         ELSE ReadOk(text_read, [some |-> FALSE])

\* the pieces file texts are built from
FileTokens ==
    { TomlDelimiter, YamlDelimiter, <<"+">>, <<"-">>, <<"t">>, <<"\n">> }

FileTexts ==
    {Flatten(ts) : ts \in UNION {[1..n -> FileTokens] : n \in 0..MaxPieces}}

InitRead ==
    /\ pc = "file"
    /\ buf \in FileTexts
    /\ read_result = NoTree
    /\ cmark_text = NoText
    /\ escaped = NoText
    /\ restored = NoText
    /\ ast_root = NoTree
    /\ xml_root = NoTree
    /\ ast_back = NoTree
    /\ DeeplIdle
    /\ calls = <<>>
    /\ FileIdle

ReadFile ==
    /\ pc = "file"
    /\ read_result' = read_cmark_with_frontmatter(buf)
    /\ pc' = "read"
    /\ UNCHANGED <<buf, pipeVars, deeplVars, calls, fileVars>>

NextRead == ReadFile

SpecRead == InitRead /\ [][NextRead]_vars

(***************************************************************************)
(* The DeepL client: Deepl::translate and Deepl::translate_xml build the   *)
(* form of the request, send it, and turn the answer into their result.    *)
(* A comma separated parameter is held as the tuple of its items.          *)
(***************************************************************************)
MaxTranslations == 2

Languages == {"De", "En", "EnGb", "Ja"}

as_langcode(lang) ==
    CASE lang = "De" -> "de"
      [] lang = "En" -> "en-us"
      [] lang = "EnGb" -> "en-gb"
      [] lang = "Ja" -> "ja"

as_src_langcode(lang) ==
    IF lang \in {"En", "EnGb"} THEN "en" ELSE as_langcode(lang)

Formalities == {"Default", "Formal", "Informal"}

to_str(formality) ==
    CASE formality = "Default" -> "default"
      [] formality = "Formal" -> "prefer_more"
      [] formality = "Informal" -> "prefer_less"

\* DeeplConfig::glossary: the glossary registered for the language pair
glossary(config, from_lang, to_lang) ==
    LET glossary_key == as_src_langcode(from_lang) \o "_" \o as_langcode(to_lang)
    IN  IF glossary_key \in DOMAIN config.glossaries
        THEN [some |-> TRUE, val |-> config.glossaries[glossary_key]]
        ELSE [some |-> FALSE]

Param(key, val) == [key |-> key, val |-> val]

\* the parameters both kinds of request start with
common_params(j) ==
    << Param("source_lang", as_src_langcode(j.from_lang)),
       Param("target_lang", as_langcode(j.to_lang)),
       Param("preserve_formatting", "1"),
       Param("formality", to_str(j.formality)) >>

glossary_param(j) ==
    LET glossary_id == glossary(j.config, j.from_lang, j.to_lang)
    IN  IF glossary_id.some
        THEN <<Param("glossary_id", glossary_id.val)>>
        ELSE <<>>

IgnoreTags == <<"header", "embed", "object">>

\* a splitting list that also names the table row
SplittingTagsWithRow ==
    <<"blockquote", "li", "dt", "dd", "p", "h1", "h2", "h3", "h4", "h5", "h6",
      "th", "tr", "td">>

SplittingTags ==
    <<"blockquote", "li", "dt", "dd", "p", "h1", "h2", "h3", "h4", "h5", "h6",
      "th", "td">>

NonSplittingTags == <<"embed", "em", "strong", "del", "a", "img">>

\* Deepl::translate_strings: one `text` parameter per text of the body
RECURSIVE text_params(_)
text_params(body) ==
    IF body = <<>>
    THEN <<>>
    ELSE <<Param("text", Head(body))>> \o text_params(Tail(body))

translate_strings_params(j, body) ==
    common_params(j) \o glossary_param(j) \o text_params(body)

\* Deepl::translate: the body is handed over as a vector of one text
translate_params(j) == translate_strings_params(j, <<j.body>>)

translate_xml_params(j) ==
    common_params(j)
        \o << Param("tag_handling", "xml"),
              Param("ignore_tags", IgnoreTags),
              Param("splitting_tags", SplittingTags),
              Param("non_splitting_tags", NonSplittingTags) >>
        \o glossary_param(j)
        \o <<Param("text", j.body)>>

Ok(v) == [kind |-> "Ok", val |-> v]

Err(e) == [kind |-> "Err", error |-> e]

\* Response::error_for_status_ref: client and server error statuses
is_error_status(status) == 400 <= status /\ status <= 599

\* send, error_for_status_ref and json: the translations of the answer
received_texts(r) ==
    IF r.kind = "NoAnswer" THEN Err("send")
    ELSE IF is_error_status(r.status) THEN Err("status")
    ELSE IF r.body.kind = "NotJson" THEN Err("decode")
    ELSE Ok(r.body.translations)

\* a client that takes an empty list of translations for a failure
first_or_error(result) ==
    IF result.kind = "Err" THEN result
    ELSE IF 0 < Len(result.val) THEN Ok(result.val[1])
    ELSE Err("empty")

\* `if 0 < result.len()`: the first translation, or the empty string
first_or_empty(result) ==
    IF result.kind = "Err" THEN result
    ELSE IF 0 < Len(result.val) THEN Ok(result.val[1])
    ELSE Ok("")

Bodies == {"Hello, World!", "<body><p>Hello</p></body>", ""}

Configs ==
    { [glossaries |-> <<>>],
      [glossaries |-> ("en_de" :> "glossary-1") @@ ("ja_en-us" :> "glossary-2")] }

Jobs ==
    [fn : {"translate", "translate_xml"}, config : Configs,
     from_lang : Languages, to_lang : Languages,
     formality : Formalities, body : Bodies]

Statuses == {200, 403, 456, 503}

TranslatedTexts == {"Hallo, Welt!", ""}

ReplyBodies ==
    {[kind |-> "NotJson"]}
        \cup {[kind |-> "Json", translations |-> ts] :
                ts \in SeqsUpTo(TranslatedTexts, MaxTranslations)}

Replies ==
    {[kind |-> "NoAnswer"]}
        \cup {[kind |-> "Answer", status |-> st, body |-> b] :
                st \in Statuses, b \in ReplyBodies}

InitDeepl ==
    /\ pc = "called"
    /\ job \in Jobs
    /\ request = NoTree
    /\ reply = NoTree
    /\ translated = NoTree
    /\ cmark_text = NoText
    /\ escaped = NoText
    /\ restored = NoText
    /\ ast_root = NoTree
    /\ xml_root = NoTree
    /\ ast_back = NoTree
    /\ ReaderIdle
    /\ calls = <<>>
    /\ FileIdle

\* the form is built and posted to the translate endpoint
Send ==
    /\ pc = "called"
    /\ request' = [endpoint |-> "translate",
                   params |-> IF job.fn = "translate"
                              THEN translate_params(job)
                              ELSE translate_xml_params(job)]
    /\ pc' = "sent"
    /\ UNCHANGED <<job, reply, translated, pipeVars, readVars, calls, fileVars>>

\* the server, or the network, answers
Answer ==
    /\ pc = "sent"
    /\ reply' \in Replies
    /\ pc' = "answered"
    /\ UNCHANGED <<job, request, translated, pipeVars, readVars, calls, fileVars>>

\* the call returns
Return ==
    /\ pc = "answered"
    /\ translated' = first_or_empty(received_texts(reply))
    /\ pc' = "returned"
    /\ UNCHANGED <<job, request, reply, pipeVars, readVars, calls, fileVars>>

NextDeepl == Send \/ Answer \/ Return

SpecDeepl == InitDeepl /\ [][NextDeepl]_vars

(***************************************************************************)
(* Invocations of the transform running side by side: each call of         *)
(* xmldom_from_cmark or cmark_from_xmldom makes its own arena and its own  *)
(* options, builds its tree in that arena, and converts what it finds      *)
(* there.  A document stands for the text the parser builds it from.       *)
(***************************************************************************)
NumCalls == 2

Callers == 1..NumCalls

comrak_options ==
    [strikethrough |-> TRUE, tagfilter |-> FALSE, table |-> TRUE,
     autolink |-> FALSE, tasklist |-> FALSE, superscript |-> FALSE,
     footnotes |-> FALSE, description_lists |-> FALSE,
     front_matter_delimiter |-> TomlDelimiter,
     smart |-> FALSE, hardbreaks |-> FALSE, github_pre_lang |-> FALSE,
     width |-> 0, unsafe_ |-> TRUE, escape |-> FALSE]

NotCalled ==
    [pc |-> "idle", fn |-> "none", input |-> NoTree, arena |-> NoTree,
     options |-> NoTree, result |-> NoTree]

\* comrak::Arena::new(): the call gets an empty arena of its own
new_arena(cs, i, fn, input) ==
    [cs EXCEPT ![i] = [pc |-> "entered", fn |-> fn, input |-> input,
                       arena |-> NoTree, options |-> NoTree,
                       result |-> NoTree]]

\* one arena that every call allocates in
alloc_in_shared_arena(cs, i, tree) ==
    [j \in DOMAIN cs |->
        IF j = i
        THEN [cs[j] EXCEPT !.arena = tree, !.options = comrak_options,
                           !.pc = "built"]
        ELSE [cs[j] EXCEPT !.arena = tree]]

\* the tree is allocated in the arena of the call
alloc(cs, i, tree) ==
    [cs EXCEPT ![i].arena = tree, ![i].options = comrak_options,
               ![i].pc = "built"]

\* the documents and elements the calls are made on
CallDocs ==
    { Document(<<>>),
      Document(<<AstNode([kind |-> "Paragraph"], <<AstNode(Text(<<"a">>), <<>>)>>)>>),
      Document(<<AstNode([kind |-> "BlockQuote"],
                         <<AstNode([kind |-> "Paragraph"],
                                   <<AstNode(Text(<<"b", "c">>), <<>>)>>)>>)>>) }

CallElements ==
    { bare("body"),
      Element("body", <<>>, <<Element("p", <<>>, <<TextNode(<<"a">>)>>)>>),
      Element("body", <<>>,
              <<Element("h2", "level" :> <<"2">>, <<TextNode(<<"b", "c">>)>>)>>) }

InitCalls ==
    /\ pc = "calls"
    /\ calls = [i \in Callers |-> NotCalled]
    /\ cmark_text = NoText
    /\ escaped = NoText
    /\ restored = NoText
    /\ ast_root = NoTree
    /\ xml_root = NoTree
    /\ ast_back = NoTree
    /\ ReaderIdle
    /\ DeeplIdle
    /\ FileIdle

\* a caller enters xmldom_from_cmark with the text of a document
EnterProjector(i) ==
    /\ calls[i].pc = "idle"
    /\ \E d \in CallDocs : calls' = new_arena(calls, i, "xmldom_from_cmark", d)
    /\ UNCHANGED <<pc, pipeVars, readVars, deeplVars, fileVars>>

\* a caller enters cmark_from_xmldom with an element
EnterReconstructor(i) ==
    /\ calls[i].pc = "idle"
    /\ \E x \in CallElements : calls' = new_arena(calls, i, "cmark_from_xmldom", x)
    /\ UNCHANGED <<pc, pipeVars, readVars, deeplVars, fileVars>>

\* parse_document, or ast_from_xml, builds the document in the arena
Build(i) ==
    /\ calls[i].pc = "entered"
    /\ calls' = alloc(calls, i,
                      IF calls[i].fn = "xmldom_from_cmark"
                      THEN calls[i].input
                      ELSE ast_from_xml(calls[i].input))
    /\ UNCHANGED <<pc, pipeVars, readVars, deeplVars, fileVars>>

\* xml_from_ast, or format_commonmark, converts the document of the arena
Convert(i) ==
    /\ calls[i].pc = "built"
    /\ calls' = [calls EXCEPT ![i].pc = "done",
                              ![i].result =
                                    IF calls[i].fn = "xmldom_from_cmark"
                                    THEN xml_from_ast(calls[i].arena)
                                    ELSE calls[i].arena]
    /\ UNCHANGED <<pc, pipeVars, readVars, deeplVars, fileVars>>

\* the call returns and its arena is dropped
Leave(i) ==
    /\ calls[i].pc = "done"
    /\ calls' = [calls EXCEPT ![i] = NotCalled]
    /\ UNCHANGED <<pc, pipeVars, readVars, deeplVars, fileVars>>

NextCalls ==
    \E i \in Callers :
        \/ EnterProjector(i)
        \/ EnterReconstructor(i)
        \/ Build(i)
        \/ Convert(i)
        \/ Leave(i)

SpecCalls == InitCalls /\ [][NextCalls]_vars

(***************************************************************************)
(* translate_cmark_file: the source file is read and split, the front      *)
(* matter and the body are translated, and then the destination file is    *)
(* created and written.  What the translator answers is not modelled: a    *)
(* translation is any text of a small set, or a failure.                   *)
(***************************************************************************)
Absent == [kind |-> "Absent"]

File(content) == [kind |-> "File", content |-> content]

Failed(step) == [kind |-> "Err", step |-> step]

Panicked(step) == [kind |-> "Panic", step |-> step]

Done == [kind |-> "Ok"]

NotYet == [kind |-> "NotYet"]

\* a file opener that creates the destination at once
open_and_create(files) == [files EXCEPT !.dst = File(<<>>)]

\* std::fs::File::open(src_path): the file system stays as it is
File_open(files) == files

\* std::fs::File::create(dst_path): the file exists and is empty
File_create(files) == [files EXCEPT !.dst = File(<<>>)]

\* the texts handed to write_all, in order
chunks(frontmatter, cmark) ==
    (IF frontmatter.some
     THEN <<TomlDelimiter \o <<"\n">>, frontmatter.val, TomlDelimiter \o <<"\n">>>>
     ELSE <<>>)
        \o <<cmark>>

\* the source files and the destination as the call finds them
SourceTexts ==
    { <<>>,
      <<"t">>,
      TomlDelimiter \o <<"t">> \o TomlDelimiter \o <<"t">>,
      TomlDelimiter \o TomlDelimiter,
      YamlDelimiter \o <<"t">> \o YamlDelimiter \o <<"\n">> \o TomlDelimiter,
      TomlDelimiter \o <<"t">>,
      YamlDelimiter \o <<"-">> }

OldDestination == File(<<"o", "l", "d">>)

FileSystems ==
    [src : {Absent} \cup {File(t) : t \in SourceTexts},
     dst : {Absent, OldDestination}]

\* what translate_toml and translate_cmark can hand back
TranslatedFrontmatters == {<<>>, <<"T", "\n">>}

TranslatedBodies == {<<>>, <<"B">>, TomlDelimiter}

InitFile ==
    /\ pc = "called"
    /\ fs \in [now : FileSystems, before : FileSystems]
    /\ fs.now = fs.before
    /\ buf = NoText
    /\ read_result = NoTree
    /\ translated_frontmatter = NotYet
    /\ translated_cmark = NotYet
    /\ outcome = NotYet
    /\ cmark_text = NoText
    /\ escaped = NoText
    /\ restored = NoText
    /\ ast_root = NoTree
    /\ xml_root = NoTree
    /\ ast_back = NoTree
    /\ DeeplIdle
    /\ calls = <<>>

\* File::open(src_path)?
OpenSource ==
    /\ pc = "called"
    /\ fs' = [fs EXCEPT !.now = File_open(fs.now)]
    /\ IF fs.now.src = Absent
       THEN pc' = "returned" /\ outcome' = Failed("open")
       ELSE pc' = "opened" /\ UNCHANGED outcome
    /\ UNCHANGED <<readVars, translated_frontmatter, translated_cmark,
                   pipeVars, deeplVars, calls>>

\* read_cmark_with_frontmatter(&mut f)? on a text that can be read
ReadSource ==
    /\ pc = "opened"
    /\ buf' = fs.now.src.content
    /\ read_result' = read_cmark_with_frontmatter(fs.now.src.content)
    /\ IF read_result'.kind = "Err"
       THEN pc' = "returned" /\ outcome' = Failed("split")
       ELSE pc' = "read" /\ UNCHANGED outcome
    /\ UNCHANGED <<fs, translated_frontmatter, translated_cmark,
                   pipeVars, deeplVars, calls>>

\* read_to_string fails
ReadFails ==
    /\ pc = "opened"
    /\ pc' = "returned"
    /\ outcome' = Failed("read")
    /\ UNCHANGED <<fs, readVars, translated_frontmatter, translated_cmark,
                   pipeVars, deeplVars, calls>>

\* the front matter, when there is one, is translated by translate_toml
TranslateFrontmatter ==
    /\ pc = "read"
    /\ IF read_result.frontmatter.some
       THEN \/ /\ \E t \in TranslatedFrontmatters :
                    translated_frontmatter' = [some |-> TRUE, val |-> t]
               /\ pc' = "frontmatter"
               /\ UNCHANGED outcome
            \/ /\ pc' = "returned"
               /\ outcome' = Failed("translate_toml")
               /\ UNCHANGED translated_frontmatter
       ELSE /\ translated_frontmatter' = [some |-> FALSE]
            /\ pc' = "frontmatter"
            /\ UNCHANGED outcome
    /\ UNCHANGED <<fs, readVars, translated_cmark, pipeVars, deeplVars, calls>>

\* the body is translated by translate_cmark, which unwraps the answer
TranslateBody ==
    /\ pc = "frontmatter"
    /\ \/ /\ \E t \in TranslatedBodies : translated_cmark' = Ok(t)
          /\ pc' = "translated"
          /\ UNCHANGED outcome
       \/ /\ pc' = "returned"
          /\ outcome' = Panicked("translate_cmark")
          /\ UNCHANGED translated_cmark
    /\ UNCHANGED <<fs, readVars, translated_frontmatter, pipeVars, deeplVars, calls>>

\* File::create(dst_path)?
CreateDestination ==
    /\ pc = "translated"
    /\ \/ /\ fs' = [fs EXCEPT !.now = File_create(fs.now)]
          /\ pc' = "created"
          /\ UNCHANGED outcome
       \/ /\ pc' = "returned"
          /\ outcome' = Failed("create")
          /\ UNCHANGED fs
    /\ UNCHANGED <<readVars, translated_frontmatter, translated_cmark,
                   pipeVars, deeplVars, calls>>

\* the write_all calls: the first k succeed, and the call fails at the next
WriteDestination ==
    /\ pc = "created"
    /\ LET cs == chunks(translated_frontmatter, translated_cmark.val)
       IN  \E k \in 0..Len(cs) :
                /\ fs' = [fs EXCEPT !.now.dst = File(Flatten(SubSeq(cs, 1, k)))]
                /\ outcome' = IF k = Len(cs) THEN Done ELSE Failed("write")
    /\ pc' = "returned"
    /\ UNCHANGED <<readVars, translated_frontmatter, translated_cmark,
                   pipeVars, deeplVars, calls>>

NextFile ==
    \/ OpenSource
    \/ ReadSource
    \/ ReadFails
    \/ TranslateFrontmatter
    \/ TranslateBody
    \/ CreateDestination
    \/ WriteDestination

SpecFile == InitFile /\ [][NextFile]_vars

(***************************************************************************)
(* Properties of the escaper.                                              *)
(***************************************************************************)
\* the text holds one of the four disguise substrings
HasDisguise(x) ==
    \/ contains(x, WrapOpenBrace)
    \/ contains(x, WrapCloseBrace)
    \/ contains(x, WrapOpenPercent)
    \/ contains(x, WrapClosePercent)

\* neither escape pass runs into an opening marker without a closing one
WellFormed(x) ==
    /\ ~swallows(x, OpenBrace, CloseBrace)
    /\ ~swallows(escape_braces(x), OpenPercent, ClosePercent)

\* pat occurs in s at index i
StartsAt(s, i, pat) ==
    /\ i + Len(pat) - 1 <= Len(s)
    /\ SubSeq(s, i, i + Len(pat) - 1) = pat

\* the last occurrence of open in x has no close after it
LastOpenUnclosed(x, open, close) ==
    \E i \in 1..Len(x) :
        /\ StartsAt(x, i, open)
        /\ \A j \in (i + 1)..Len(x) : ~StartsAt(x, j, open)
        /\ ~contains(SubSeq(x, i + Len(open), Len(x)), close)

\* C1: for every text with none of the four disguise substrings,
\* unescaping the escaped text gives the text back.
C1_RoundTripWithoutDisguise ==
    (pc = "unescaped" /\ ~HasDisguise(cmark_text)) => restored = cmark_text

\* C2: for every well-formed text (no escape pass meets an opening marker
\* without a closing one), unescaping the escaped text gives the text back,
\* also when the text already holds a disguise substring.
C2_RoundTripWellFormed ==
    (pc = "unescaped" /\ WellFormed(cmark_text)) => restored = cmark_text

C2_Witness ==
    /\ pc = "unescaped"
    /\ WellFormed(cmark_text)
    /\ HasDisguise(cmark_text)
    /\ contains(cmark_text, OpenBrace)
    /\ escaped # cmark_text
    /\ restored = cmark_text

\* C3: for every text whose last {{ (or {%) has no }} (or %}) after it,
\* unescaping the escaped text gives the text back, no closing marker added.
C3_RoundTripUnterminated ==
    (/\ pc = "unescaped"
     /\ \/ LastOpenUnclosed(cmark_text, OpenBrace, CloseBrace)
        \/ LastOpenUnclosed(cmark_text, OpenPercent, ClosePercent))
        => restored = cmark_text

\* The reference transform of one pass, read off character by character:
\* outside a span an opening marker starts a wrapper, inside a span the
\* first closing marker ends it, the end of input ends an open span, and
\* every other character is copied.
RECURSIVE RefPass(_, _, _, _, _, _, _)
RefPass(s, i, inside, open, close, wopen, wclose) ==
    IF i > Len(s)
    THEN IF inside THEN wclose ELSE <<>>
    ELSE IF ~inside /\ StartsAt(s, i, open)
    THEN wopen \o RefPass(s, i + Len(open), TRUE, open, close, wopen, wclose)
    ELSE IF inside /\ StartsAt(s, i, close)
    THEN wclose \o RefPass(s, i + Len(close), FALSE, open, close, wopen, wclose)
    ELSE <<s[i]>> \o RefPass(s, i + 1, inside, open, close, wopen, wclose)

RefEscape(x) ==
    LET pass1 == RefPass(x, 1, FALSE, OpenBrace, CloseBrace,
                         WrapOpenBrace, WrapCloseBrace)
    IN  RefPass(pass1, 1, FALSE, OpenPercent, ClosePercent,
                WrapOpenPercent, WrapClosePercent)

\* C4: escape_all_shortcodes equals the two-pass reference transform on
\* every text, and maps the two documented examples to their documented
\* results.
C4_EscapeIsReference ==
    pc # "text" =>
        /\ escaped = RefEscape(cmark_text)
        /\ cmark_text = Example1 => escaped = Example1Escaped
        /\ cmark_text = Example2 => escaped = Example2Escaped

C4_Witness ==
    /\ pc = "escaped"
    /\ swallows(cmark_text, OpenBrace, CloseBrace)
    /\ contains(cmark_text, ClosePercent)
    /\ escaped # cmark_text

(***************************************************************************)
(* Properties of the tree projector and reconstructor.                     *)
(***************************************************************************)
\* the positions of a document tree, as sequences of child indexes
RECURSIVE Paths(_)
Paths(t) ==
    {<<>>} \cup UNION {{<<i>> \o p : p \in Paths(t.children[i])} :
                        i \in 1..Len(t.children)}

RECURSIVE NodeAt(_, _)
NodeAt(t, p) == IF p = <<>> THEN t ELSE NodeAt(t.children[p[1]], Tail(p))

\* the positions of the elements of an XML tree
RECURSIVE XmlPaths(_)
XmlPaths(x) ==
    {<<>>} \cup UNION {{<<i>> \o p : p \in XmlPaths(x.nodes[i])} :
                        i \in {j \in 1..Len(x.nodes) : IsElement(x.nodes[j])}}

RECURSIVE XmlAt(_, _)
XmlAt(x, p) == IF p = <<>> THEN x ELSE XmlAt(x.nodes[p[1]], Tail(p))

\* a document was projected and the projection reconstructed
RoundTripDone == pc = "reconstructed" /\ ast_root # NoTree

\* a received element was reconstructed without a panic
ReceivedDone == pc = "reconstructed" /\ ast_root = NoTree /\ ast_back # Panic

\* the fields of a node value the Mapping Table does not carry
NotCaptured ==
    {"bullet_char", "setext", "fenced", "fence_char", "fence_length",
     "fence_offset", "num_backticks"}

RECURSIVE Captured(_)
Captured(t) ==
    AstNode([f \in DOMAIN t.value \ NotCaptured |-> t.value[f]],
            [i \in 1..Len(t.children) |-> Captured(t.children[i])])

\* C5: projecting a document tree and reconstructing the projection gives
\* a tree equal to the original in node kinds, child order and every
\* attribute the Mapping Table carries.
C5_RoundTripTree ==
    RoundTripDone =>
        /\ ast_back # Panic
        /\ Captured(ast_back) = Captured(ast_root)

\* the six fields of a List or Item node
ListFields(v) ==
    <<v.list_type, v.marker_offset, v.padding, v.start, v.delimiter, v.tight>>

\* C6: projecting and reconstructing preserves the six fields of every
\* List and Item node: list type, marker offset, padding, start,
\* delimiter and tight flag.
C6_RoundTripListFields ==
    RoundTripDone =>
        \A p \in Paths(ast_root) :
            NodeAt(ast_root, p).value.kind \in {"List", "Item"} =>
                /\ p \in Paths(ast_back)
                /\ NodeAt(ast_back, p).value.kind = NodeAt(ast_root, p).value.kind
                /\ ListFields(NodeAt(ast_back, p).value)
                        = ListFields(NodeAt(ast_root, p).value)

\* the tag and the level text of each heading level
HeadingTag == <<"h1", "h2", "h3", "h4", "h5", "h6">>
HeadingLevelText == <<<<"1">>, <<"2">>, <<"3">>, <<"4">>, <<"5">>, <<"6">>>>

\* C7: a Heading of level L in 1..6 is projected to the tag hL with the
\* attribute level = L, and reconstructed to a Heading of level L.
C7_HeadingLevel ==
    RoundTripDone =>
        \A p \in Paths(ast_root) :
            LET v == NodeAt(ast_root, p).value
            IN  v.kind = "Heading" =>
                    /\ XmlAt(xml_root, p).name = HeadingTag[v.level]
                    /\ XmlAt(xml_root, p).attrs = [level |-> HeadingLevelText[v.level]]
                    /\ NodeAt(ast_back, p).value.kind = "Heading"
                    /\ NodeAt(ast_back, p).value.level = v.level

C7_Witness ==
    /\ RoundTripDone
    /\ Len(ast_root.children) = 1
    /\ ast_root.children[1].value.kind = "Heading"
    /\ ast_root.children[1].value.level = 6
    /\ ast_root.children[1].value.setext
    /\ Len(ast_back.children[1].children) = 2

\* the character of the `align` attribute for each alignment
AlignCode == [None |-> "-", Left |-> "l", Center |-> "c", Right |-> "r"]

\* C8: a table's alignment sequence of any length 0..MaxCols is encoded as
\* one character per column, in column order, and decoding the attribute
\* gives the same sequence back.
C8_AlignRoundTrip ==
    RoundTripDone =>
        \A p \in Paths(ast_root) :
            LET v == NodeAt(ast_root, p).value
            IN  v.kind = "Table" =>
                    /\ XmlAt(xml_root, p).name = "table"
                    /\ XmlAt(xml_root, p).attrs
                            = [align |-> [i \in 1..Len(v.align) |-> AlignCode[v.align[i]]]]
                    /\ NodeAt(ast_back, p).value = v

C8_Witness ==
    /\ RoundTripDone
    /\ Len(ast_root.children) = 1
    /\ ast_root.children[1].value.kind = "Table"
    /\ Len(ast_root.children[1].value.align) = 6
    /\ {ast_root.children[1].value.align[i] : i \in 1..6} = Alignments
    /\ ast_back.children[1].value.align = ast_root.children[1].value.align

\* C9: an element whose tag is not in the vocabulary is reconstructed to a
\* single empty Text node without children, whatever the element holds.
C9_UnknownTagIsEmptyLeaf ==
    ReceivedDone =>
        \A p \in XmlPaths(xml_root) \cap Paths(ast_back) :
            XmlAt(xml_root, p).name \notin Vocabulary =>
                NodeAt(ast_back, p) = AstNode(Text(<<>>), <<>>)

\* the numeric attributes: the tags, the attribute, the field it decodes to
NumericAttrs ==
    {<<{"ul", "ol", "li"}, "offset", "marker_offset">>,
     <<{"ul", "ol", "li"}, "padding", "padding">>,
     <<{"ul", "ol", "li"}, "start", "start">>,
     <<{"di"}, "offset", "marker_offset">>,
     <<{"di"}, "padding", "padding">>,
     <<{"object"}, "type", "block_type">>,
     <<HeadingNames, "level", "level">>}

\* attribute texts that are no unsigned decimal numeral
BadNumerals ==
    {<<>>, <<"x">>, <<" ", "1">>, <<"-", "1">>, <<"1", ".", "5">>, <<"O">>,
     <<"t", "r", "u", "e">>, <<".">>, <<")">>}

\* the attribute is missing or holds no numeral
Undecodable(xml_elm, a) ==
    a \notin DOMAIN xml_elm.attrs \/ xml_elm.attrs[a] \in BadNumerals

\* every undecodable numeric attribute decodes to 0, and an undecodable
\* level to level_default
DecodesTo(level_default) ==
    \A p \in XmlPaths(xml_root) \cap Paths(ast_back) :
        \A na \in NumericAttrs :
            (XmlAt(xml_root, p).name \in na[1] /\ Undecodable(XmlAt(xml_root, p), na[2]))
                => NodeAt(ast_back, p).value[na[3]]
                        = IF na[2] = "level" THEN level_default ELSE 0

\* C10 as stated: every missing or unparseable numeric attribute, level on
\* h1..h6 included, decodes to 0.
C10_NumericDefaultZero == ReceivedDone => DecodesTo(0)

\* C10 as amended: a missing or unparseable offset, padding, start (ul, ol,
\* li, di) or type (object) decodes to 0, and a missing or unparseable
\* level (h1..h6) decodes to 1; none raises an error.
C10_NumericDefaults == ReceivedDone => DecodesTo(1)

C10_Witness ==
    /\ ReceivedDone
    /\ xml_root.nodes[1].name = "li"
    /\ DOMAIN xml_root.nodes[1].attrs = {"start", "padding", "type"}
    /\ xml_root.nodes[1].attrs["start"] = <<"x">>
    /\ xml_root.nodes[1].attrs["padding"] = <<"7">>
    /\ ast_back.children[1].value.start = 0
    /\ ast_back.children[1].value.padding = 7

\* the attribute is present and its text is exactly "1"
IsExactlyOne(xml_elm, a) ==
    a \in DOMAIN xml_elm.attrs /\ xml_elm.attrs[a] = <<"1">>

\* C11: a boolean attribute (tight on ul, ol, li; checked on input) decodes
\* to true exactly when it is present with the text "1"; a missing
\* attribute and every other text decode to false.
C11_BooleanExactlyOne ==
    ReceivedDone =>
        \A p \in XmlPaths(xml_root) \cap Paths(ast_back) :
            LET e == XmlAt(xml_root, p)
                v == NodeAt(ast_back, p).value
            IN  /\ e.name \in {"ul", "ol", "li"} =>
                        v.tight = IsExactlyOne(e, "tight")
                /\ e.name = "input" => v.checked = IsExactlyOne(e, "checked")

C11_Witness ==
    /\ ReceivedDone
    /\ xml_root.nodes[1].name = "ol"
    /\ xml_root.nodes[1].attrs = [tight |-> <<" ", "1">>]
    /\ ast_back.children[1].value.tight = FALSE

\* C12: reconstructing any received element tree returns a document node
\* and never panics, whatever attributes are missing or corrupted, a
\* `table` without `align` included.
C12_ReconstructNeverFails ==
    (pc = "reconstructed" /\ ast_root = NoTree) =>
        /\ ast_back # Panic
        /\ ast_back.value.kind = "Document"

(***************************************************************************)
(* Properties of the front matter reader.                                  *)
(***************************************************************************)
\* the text after the opening delimiter
AfterOpening(s) == SubSeq(s, 4, Len(s))

\* the file opens with the delimiter d and d does not occur again after it
Unclosed(s, d) == starts_with(s, d) /\ ~contains(AfterOpening(s), d)

\* C13: when the text starts with +++ or --- and that delimiter does not
\* occur a second time, reading fails with UnexpectedEof: no body and no
\* partial front matter is returned.
C13_UnclosedFrontmatterFails ==
    (pc = "read" /\ (Unclosed(buf, TomlDelimiter) \/ Unclosed(buf, YamlDelimiter)))
        => read_result = UnexpectedEof

C13_Witness ==
    /\ pc = "read"
    /\ buf = <<"-", "-", "-", "-", "t", "+", "+", "+">>
    /\ read_result = UnexpectedEof

(***************************************************************************)
(* Properties of the tag vocabulary.                                       *)
(***************************************************************************)
\* the tags the Mapping Table allows below the root
DescendantTags ==
    {"header", "blockquote", "ul", "ol", "li", "dl", "di", "dt", "dd", "pre",
     "object", "p", "h1", "h2", "h3", "h4", "h5", "h6", "hr", "footer",
     "table", "th", "tr", "td", "input", "wbr", "br", "code", "embed", "em",
     "strong", "del", "sup", "a", "img", "sub"}

\* a document has been projected
Projected == pc \in {"projected", "reconstructed"} /\ ast_root # NoTree

\* C14: the projected tree has the root tag `body`, and the tag of every
\* element below the root is one of the Mapping Table's tags.
C14_ClosedVocabulary ==
    Projected =>
        /\ IsElement(xml_root)
        /\ xml_root.name = "body"
        /\ \A p \in XmlPaths(xml_root) \ {<<>>} :
                XmlAt(xml_root, p).name \in DescendantTags

C14_Witness ==
    /\ pc = "projected"
    /\ Len(xml_root.nodes) = 1
    /\ IsElement(xml_root.nodes[1])
    /\ xml_root.nodes[1].name = "h6"
    /\ Len(xml_root.nodes[1].nodes) = 2
    /\ IsElement(xml_root.nodes[1].nodes[2])
    /\ xml_root.nodes[1].nodes[2].name = "em"

\* C15: the tag emitted for a node of kind K decodes to a node of kind K,
\* so no tag stands for two kinds (ul and ol are both List, th and tr both
\* TableRow, h1..h6 all Heading).
C15_TagsInjectiveOnKinds ==
    RoundTripDone =>
        /\ \A p \in Paths(ast_root) :
                /\ p \in Paths(ast_back)
                /\ NodeAt(ast_back, p).value.kind = NodeAt(ast_root, p).value.kind
        /\ \A p, q \in XmlPaths(xml_root) :
                XmlAt(xml_root, p).name = XmlAt(xml_root, q).name
                    => NodeAt(ast_root, p).value.kind = NodeAt(ast_root, q).value.kind

C15_Witness ==
    /\ RoundTripDone
    /\ Len(ast_root.children) = 1
    /\ ast_root.children[1].value = [kind |-> "TableRow", header |-> TRUE]
    /\ xml_root.nodes[1].name = "th"
    /\ ast_back.children[1].value.kind = "TableRow"

(***************************************************************************)
(* Properties of the DeepL client.                                         *)
(***************************************************************************)
\* the values sent under a key, in the order they were added
RECURSIVE ValuesOf(_, _)
ValuesOf(params, key) ==
    IF params = <<>>
    THEN <<>>
    ELSE (IF Head(params).key = key THEN <<Head(params).val>> ELSE <<>>)
            \o ValuesOf(Tail(params), key)

Items(list) == {list[i] : i \in 1..Len(list)}

\* the tags xml_from_ast emits for some node value
EmittedTags ==
    {xml_node_of(v).name : v \in {w \in NodeValues : IsElement(xml_node_of(w))}}

\* the tag list sent under the key is exactly the set of tags
Declares(key, tags) ==
    /\ Len(ValuesOf(request.params, key)) = 1
    /\ Items(ValuesOf(request.params, key)[1]) = tags
    /\ tags \subseteq EmittedTags

XmlRequestSent == pc # "called" /\ job.fn = "translate_xml"

\* C16: every request of translate_xml, with or without a glossary,
\* declares exactly header, embed, object as ignored, exactly blockquote,
\* li, dt, dd, p, h1..h6, th, td as splitting and exactly embed, em, strong,
\* del, a, img as non-splitting, and the Projector emits every one of them.
C16_TranslationTagContract ==
    XmlRequestSent =>
        /\ Declares("ignore_tags", {"header", "embed", "object"})
        /\ Declares("splitting_tags",
                    {"blockquote", "li", "dt", "dd", "p", "h1", "h2", "h3",
                     "h4", "h5", "h6", "th", "td"})
        /\ Declares("non_splitting_tags",
                    {"embed", "em", "strong", "del", "a", "img"})
        /\ ValuesOf(request.params, "tag_handling") = <<"xml">>

C16_Witness ==
    /\ XmlRequestSent
    /\ ValuesOf(request.params, "glossary_id") = <<"glossary-1">>
    /\ ValuesOf(request.params, "splitting_tags") = <<SplittingTags>>

\* Deepl::translate has returned
TextReturned == pc = "returned" /\ job.fn = "translate"

\* the answer came with a success status and a well-formed body
Successful(r) ==
    r.kind = "Answer" /\ ~is_error_status(r.status) /\ r.body.kind = "Json"

\* C18: Deepl::translate submits exactly one text, the body, and returns
\* the first translation of the answer; a successful answer with no
\* translations gives the empty string and not an error; an answer with an
\* HTTP error status gives an error and no text.
C18_TranslateFirstOrEmpty ==
    /\ (pc # "called" /\ job.fn = "translate") =>
            ValuesOf(request.params, "text") = <<job.body>>
    /\ TextReturned =>
            /\ (Successful(reply) /\ reply.body.translations # <<>>) =>
                    translated = Ok(reply.body.translations[1])
            /\ (Successful(reply) /\ reply.body.translations = <<>>) =>
                    translated = Ok("")
            /\ (reply.kind = "Answer" /\ is_error_status(reply.status)) =>
                    translated = Err("status")

C18_Witness ==
    /\ TextReturned
    /\ reply = [kind |-> "Answer", status |-> 200,
                body |-> [kind |-> "Json", translations |-> <<>>]]
    /\ translated = Ok("")

(***************************************************************************)
(* Properties of calls running side by side.                               *)
(***************************************************************************)
\* what the call gives when it runs alone
Alone(fn, input) ==
    IF fn = "xmldom_from_cmark" THEN xml_from_ast(input) ELSE ast_from_xml(input)

\* C17: the transform keeps no state between or across invocations: a call
\* that is repeated, or interleaved with calls on other documents, gives
\* the result it gives alone, with the options it builds itself.
C17_CallsIndependent ==
    pc = "calls" =>
        \A i \in Callers :
            /\ calls[i].pc = "done" =>
                    calls[i].result = Alone(calls[i].fn, calls[i].input)
            /\ calls[i].pc \in {"built", "done"} =>
                    calls[i].options = comrak_options

C17_Witness ==
    /\ pc = "calls"
    /\ calls[1].pc = "done"
    /\ calls[1].fn = "xmldom_from_cmark"
    /\ calls[1].input = Document(<<>>)
    /\ calls[1].result = bare("body")
    /\ calls[2].pc = "built"
    /\ calls[2].fn = "cmark_from_xmldom"
    /\ calls[2].input # bare("body")

(***************************************************************************)
(* Properties of the children of a reconstructed node.                     *)
(***************************************************************************)
IsTextNode(n) == ~IsElement(n)

\* the texts of the direct text children of an element, joined in order
DirectText(e) ==
    LET texts == SelectSeq(e.nodes, IsTextNode)
    IN  Flatten([i \in 1..Len(texts) |-> texts[i].text])

\* an element was reconstructed without a panic
Reconstructed == pc = "reconstructed" /\ ast_back # Panic

\* C19: a `header` or `pre` element is reconstructed without iterating its
\* children: the node has no children, its payload is the concatenation,
\* in order, of the direct text children (element children add nothing),
\* and the `info` of a `pre` is the attribute, or empty when it is missing.
C19_HeaderPreTakeTextOnly ==
    Reconstructed =>
        \A p \in XmlPaths(xml_root) \cap Paths(ast_back) :
            LET e == XmlAt(xml_root, p)
                n == NodeAt(ast_back, p)
            IN  /\ e.name = "header" =>
                        /\ n.children = <<>>
                        /\ n.value = [kind |-> "FrontMatter", text |-> DirectText(e)]
                /\ e.name = "pre" =>
                        /\ n.children = <<>>
                        /\ n.value.kind = "CodeBlock"
                        /\ n.value.literal = DirectText(e)
                        /\ n.value.info = IF "info" \in DOMAIN e.attrs
                                          THEN e.attrs["info"]
                                          ELSE <<>>

C19_Witness ==
    /\ Reconstructed
    /\ ast_root = NoTree
    /\ xml_root.nodes[1].name = "pre"
    /\ DOMAIN xml_root.nodes[1].attrs = {}
    /\ xml_root.nodes[1].nodes =
            <<TextNode(<<"a">>), Element("p", <<>>, <<>>), TextNode(<<"a">>)>>
    /\ ast_back.children[1].children = <<>>
    /\ ast_back.children[1].value.literal = <<"a", "a">>
    /\ ast_back.children[1].value.info = <<>>

\* the nodes the children of an element stand for: an element child its
\* reconstructed node, a text child one Text node, an empty text child none
RECURSIVE ChildrenFor(_)
ChildrenFor(nodes) ==
    IF nodes = <<>>
    THEN <<>>
    ELSE (IF IsElement(Head(nodes))
          THEN <<ast_from_xml(Head(nodes))>>
          ELSE IF Head(nodes).text = <<>>
               THEN <<>>
               ELSE <<AstNode(Text(Head(nodes).text), <<>>)>>)
            \o ChildrenFor(Tail(nodes))

\* C20: for every vocabulary tag other than `header` and `pre` the node has
\* one child per XML child, in order: the reconstructed node for an element
\* child, one Text node for a text child; adjacent text children are never
\* merged, and an empty text child produces no Text node.
C20_OneChildPerXmlChild ==
    Reconstructed =>
        \A p \in XmlPaths(xml_root) \cap Paths(ast_back) :
            LET e == XmlAt(xml_root, p)
            IN  e.name \in Vocabulary \ {"header", "pre"} =>
                    NodeAt(ast_back, p).children = ChildrenFor(e.nodes)

(***************************************************************************)
(* Properties of the shape of the projection.                              *)
(***************************************************************************)
\* the kinds whose element carries its literal as one text child
LiteralKinds == {"FrontMatter", "CodeBlock"}

\* C21: xml_from_ast emits one XML node per document node, an element or,
\* for a Text node, a text run with the same content, and the projected
\* children keep their order; the only extra node is the one literal text
\* child of a `header` or `pre` element.
C21_ShapePreserving ==
    Projected =>
        \A p \in Paths(ast_root) :
            LET n == NodeAt(ast_root, p)
                x == XmlAt(xml_root, p)
            IN  IF n.value.kind = "Text"
                THEN x = TextNode(n.value.text)
                ELSE /\ IsElement(x)
                     /\ x = [xml_node_of(n.value) EXCEPT !.nodes = x.nodes]
                     /\ IF n.value.kind \in LiteralKinds
                        THEN /\ n.children = <<>>
                             /\ Len(x.nodes) = 1
                             /\ x.nodes[1] =
                                    TextNode(IF n.value.kind = "FrontMatter"
                                             THEN n.value.text
                                             ELSE n.value.literal)
                        ELSE Len(x.nodes) = Len(n.children)

C21_Witness ==
    /\ pc = "projected"
    /\ Len(ast_root.children) = 2
    /\ ast_root.children[1].value.kind = "Paragraph"
    /\ ast_root.children[2].value = Text(<<"b">>)
    /\ IsElement(xml_root.nodes[1])
    /\ xml_root.nodes[1].name = "p"
    /\ xml_root.nodes[1].nodes = <<TextNode(<<"a">>)>>
    /\ xml_root.nodes[2] = TextNode(<<"b">>)

(***************************************************************************)
(* Properties of the attributes of a reconstructed node.                   *)
(***************************************************************************)
\* every `table` of the received tree carries an `align` attribute
TablesAligned ==
    \A p \in XmlPaths(xml_root) :
        XmlAt(xml_root, p).name = "table" =>
            "align" \in DOMAIN XmlAt(xml_root, p).attrs

\* the alignment the Mapping Table gives a character
AlignmentFor(c) ==
    IF c = "l" THEN "Left"
    ELSE IF c = "c" THEN "Center"
    ELSE IF c = "r" THEN "Right"
    ELSE "None"

\* C22: the `align` attribute of a `table` decodes to one alignment per
\* character, in order: l to left, c to center, r to right and every other
\* character to unspecified, without a failure and without changing the
\* number of columns.
C22_AlignPerCharacter ==
    (pc = "reconstructed" /\ TablesAligned) =>
        /\ ast_back # Panic
        /\ \A p \in XmlPaths(xml_root) \cap Paths(ast_back) :
                LET e == XmlAt(xml_root, p)
                    v == NodeAt(ast_back, p).value
                IN  e.name = "table" =>
                        /\ v.kind = "Table"
                        /\ Len(v.align) = Len(e.attrs["align"])
                        /\ \A i \in 1..Len(v.align) :
                                v.align[i] = AlignmentFor(e.attrs["align"][i])

C22_Witness ==
    /\ pc = "reconstructed"
    /\ ast_root = NoTree
    /\ xml_root.nodes[1].name = "table"
    /\ xml_root.nodes[1].attrs = [align |-> <<"L", "x", " ", "r">>]
    /\ ast_back # Panic
    /\ ast_back.children[1].value.align = <<"None", "None", "None", "Right">>

\* the number each numeral among the attribute texts stands for
NumeralValue ==
    (<<"0">> :> 0) @@ (<<"1">> :> 1) @@ (<<"4">> :> 4) @@ (<<"7">> :> 7)
        @@ (<<"9", "9">> :> 99) @@ (<<"1", "2">> :> 12) @@ (<<"0", "7">> :> 7)
        @@ (<<"2", "5", "5">> :> 255) @@ (<<"+", "3">> :> 3)

\* the heading elements of the received tree whose level is a numeral
NumberedHeadings ==
    {p \in XmlPaths(xml_root) \cap Paths(ast_back) :
        /\ XmlAt(xml_root, p).name \in HeadingNames
        /\ "level" \in DOMAIN XmlAt(xml_root, p).attrs
        /\ XmlAt(xml_root, p).attrs["level"] \in DOMAIN NumeralValue}

\* C23: when the tag suffix of a heading element and its `level` attribute
\* disagree (h2 with level 4), the level is the attribute's, the suffix is
\* ignored, and reconstruction does not fail.
C23_LevelFromAttribute ==
    ReceivedDone =>
        \A p \in NumberedHeadings :
            /\ NodeAt(ast_back, p).value.kind = "Heading"
            /\ NodeAt(ast_back, p).value.level
                    = NumeralValue[XmlAt(xml_root, p).attrs["level"]]

C23_Witness ==
    /\ ReceivedDone
    /\ xml_root.nodes[1].name = "h2"
    /\ xml_root.nodes[1].attrs = [level |-> <<"4">>]
    /\ ast_back.children[1].value.level = 4

\* C24: every Heading node the Reconstructor produces has a level in 1..6,
\* whatever the `level` attribute of the h1..h6 element holds.
C24_HeadingLevelInRange ==
    ReceivedDone =>
        \A p \in Paths(ast_back) :
            NodeAt(ast_back, p).value.kind = "Heading" =>
                NodeAt(ast_back, p).value.level \in 1..6

(***************************************************************************)
(* Properties of the unescaper on any text.                                *)
(***************************************************************************)
\* the two reference passes in the reverse order of escape
RefUnescape(y) ==
    LET pass1 == RefPass(y, 1, FALSE, WrapOpenPercent, WrapClosePercent,
                         OpenPercent, ClosePercent)
    IN  RefPass(pass1, 1, FALSE, WrapOpenBrace, WrapCloseBrace,
                OpenBrace, CloseBrace)

\* C25: on every text unescape_all_shortcodes equals the two-pass
\* reference: first each percent wrapper up to the first closing wrapper
\* is restored, then each brace wrapper; an opening wrapper with no
\* closing wrapper takes the rest of the input as its body; a text with no
\* opening wrapper is returned unchanged.
C25_UnescapeIsReference ==
    pc = "restored" =>
        /\ restored = RefUnescape(escaped)
        /\ (~contains(escaped, WrapOpenPercent) /\ ~contains(escaped, WrapOpenBrace))
                => restored = escaped

C25_Witness ==
    /\ pc = "restored"
    /\ escaped = WrapOpenPercent \o <<"a">> \o WrapOpenBrace
    /\ restored = OpenPercent \o <<"a">> \o OpenBrace \o ClosePercent \o CloseBrace

\* C26: the kind of a reconstructed `ul`, `ol` or `li` is decided by the
\* `type` attribute alone: Ordered exactly when `type` is the text "o",
\* whatever the tag name, so an `ol` with a missing or altered `type` is a
\* bullet list and a `ul` with type "o" an ordered list.
C26_ListTypeFromAttribute ==
    ReceivedDone =>
        \A p \in XmlPaths(xml_root) \cap Paths(ast_back) :
            LET e == XmlAt(xml_root, p)
                v == NodeAt(ast_back, p).value
            IN  e.name \in {"ul", "ol", "li"} =>
                    /\ v.kind = IF e.name = "li" THEN "Item" ELSE "List"
                    /\ v.list_type =
                            IF "type" \in DOMAIN e.attrs /\ e.attrs["type"] = <<"o">>
                            THEN "Ordered"
                            ELSE "Bullet"

C26_Witness ==
    /\ ReceivedDone
    /\ xml_root.nodes[1].name = "ol"
    /\ xml_root.nodes[1].attrs = [type |-> <<"O">>]
    /\ ast_back.children[1].value.list_type = "Bullet"

\* C27: when reading succeeds on a text that starts with a delimiter d,
\* d + front matter + d + body is the text and the front matter holds no d
\* (the split is at the first two occurrences, later ones stay in the
\* body); a text that starts with neither delimiter is returned whole,
\* with no front matter.
C27_SplitRebuildsText ==
    (pc = "read" /\ read_result.kind = "Ok") =>
        /\ \A d \in {TomlDelimiter, YamlDelimiter} :
                starts_with(buf, d) =>
                    /\ read_result.frontmatter.some
                    /\ d \o read_result.frontmatter.val \o d \o read_result.body = buf
                    /\ ~contains(read_result.frontmatter.val, d)
        /\ (~starts_with(buf, TomlDelimiter) /\ ~starts_with(buf, YamlDelimiter)) =>
                /\ ~read_result.frontmatter.some
                /\ read_result.body = buf

C27_Witness ==
    /\ pc = "read"
    /\ buf = TomlDelimiter \o <<"t">> \o TomlDelimiter \o TomlDelimiter
    /\ read_result = ReadOk(TomlDelimiter, [some |-> TRUE, val |-> <<"t">>])

(***************************************************************************)
(* Properties of translate_cmark_file.                                     *)
(***************************************************************************)
Untouched == fs.now.dst = fs.before.dst

\* C28: the destination is created or truncated only after the source was
\* read and split and both translations completed; when opening, reading,
\* splitting or the front matter translation fails, the error is returned
\* and the destination is untouched; on success the destination holds
\* +++, the translated front matter, +++ and the translated body when the
\* source had front matter, and the translated body alone otherwise.
C28_DestinationWrittenLast ==
    pc # "calls" /\ fs # NoTree =>
        /\ ~Untouched =>
                /\ read_result.kind = "Ok"
                /\ translated_frontmatter # NotYet
                /\ translated_cmark # NotYet
        /\ (outcome.kind = "Err"
                /\ outcome.step \in {"open", "read", "split", "translate_toml"})
                => (pc = "returned" /\ Untouched)
        /\ outcome = Done =>
                fs.now.dst =
                    File(IF read_result.frontmatter.some
                         THEN <<"+", "+", "+", "\n">> \o translated_frontmatter.val
                                \o <<"+", "+", "+", "\n">> \o translated_cmark.val
                         ELSE translated_cmark.val)

C28_Witness ==
    /\ pc = "returned"
    /\ outcome = Done
    /\ fs.before.dst = OldDestination
    /\ buf = YamlDelimiter \o <<"t">> \o YamlDelimiter \o <<"\n">> \o TomlDelimiter
    /\ fs.now.dst = File(<<"+", "+", "+", "\n", "T", "\n", "+", "+", "+", "\n", "B">>)

====
